---------------------------- MODULE Spec2Model ----------------------------
(***************************************************************************)
(* TaskFlow: the task store, the task service and the background worker.   *)
(*                                                                         *)
(* Granularity.  A TaskService method that changes a task runs in a        *)
(* database session of its own: it SELECTs the row, changes attributes of  *)
(* the loaded object, and commits, which UPDATEs the columns whose value   *)
(* changed.  Nothing locks the row in between, so the read and the commit  *)
(* are two steps here, and the steps of other sessions come between them.  *)
(* create_task is one INSERT and one step.  The worker's coroutines are    *)
(* cut at their awaits (asyncio.sleep, asyncio.gather) and at the commit   *)
(* and the refresh of their service calls; a session keeps no object the   *)
(* coroutine has dropped, so every get_by_id reads the row as it is then.  *)
(* A store error is an exception raised by a service call, with no effect  *)
(* on the store.                                                           *)
(*                                                                         *)
(* Time.  completed_at is abstracted to "utcnow" (set) against Null.       *)
(* created_at is the reading of a clock that the step Tick sets, forwards  *)
(* or backwards.  Queries order by created_at alone; the order of rows     *)
(* with the same created_at is the database's choice.                      *)
(***************************************************************************)
EXTENDS Integers, Sequences, FiniteSets, TLC

\* ------------------------------------------------------------- bounds
MaxTasks == 2
MaxFaults == 1
Concurrency == 2
MaxPolls == 3
MaxClock == 2

Ids == 1..MaxTasks
\* An id no row has: get_by_id finds nothing.
UnknownId == MaxTasks + 1
Workers == {"w1", "w2"}
Loops == {"l1", "l2"}
\* The sessions of the API's requests.
Callers == {"a", "b"}

\* ------------------------------------------------------------- values
Null == "null"
PENDING == "pending"
IN_PROGRESS == "in_progress"
COMPLETED == "completed"
FAILED == "failed"
CANCELLED == "cancelled"
TaskStatus == {PENDING, IN_PROGRESS, COMPLETED, FAILED, CANCELLED}
TaskPriority == {"low", "medium", "high", "urgent"}
Terminal == {COMPLETED, FAILED, CANCELLED}

SimulatedError == "Simulated processing error"
StoreError == "store error"
\* str(e) of the exception of a refresh that finds no row.
RefreshError == "could not refresh"
\* f"Task {task.id} completed successfully"
WorkerResult(id) == "Task " \o ToString(id) \o " completed successfully"

\* Python truthiness of an Optional[str]: None and "" are false.
Truthy(s) == s # Null /\ s # ""

VARIABLES
    store,      \* the tasks table: id -> row
    call,       \* per API session: the service call whose commit is due
    running,    \* TaskWorker.running, per worker instance
    lpc,        \* per loop thread: where worker_loop stands
    lowner,     \* per loop thread: the TaskWorker whose worker_loop it runs
    batch,      \* per loop thread: pending_tasks of the iteration (ids)
    unit,       \* per loop thread: where each process_task coroutine stands
    uw,         \* per coroutine: the columns its session has yet to write;
                \* in the except block, the message of the exception caught
    faults,     \* store errors raised so far
    polls,      \* history: the polls counted so far (CountedPoll)
    clock       \* what datetime.utcnow() returns

vars == <<store, call, running, lpc, lowner, batch, unit, uw, faults, polls, clock>>
\* All but the store and the API sessions.
wvars == <<running, lpc, lowner, batch, unit, uw, faults, polls, clock>>

\* ------------------------------------------------------------- the model row
Task(title, description, priority) ==
    [title |-> title, description |-> description, priority |-> priority,
     status |-> PENDING, created_at |-> Null, completed_at |-> Null,
     result |-> Null, error_message |-> Null]

\* The columns a service call assigns.
Columns == {"title", "description", "priority", "status", "completed_at",
            "result", "error_message"}

\* ------------------------------------------------------------- the session
\* What a session's flush writes: the columns whose value differs from the
\* one loaded, and those given a fresh utcnow().
Dirty(loaded, changed, stamped) ==
    LET cs == {d \in Columns : changed[d] # loaded[d]} \cup stamped
    IN IF cs = {} THEN << >> ELSE [c \in cs |-> changed[c]]

\* UPDATE tasks SET <the dirty columns> WHERE id = :id, on the row as it is
\* in the table by then.
Flush(row, w) ==
    [title |-> IF "title" \in DOMAIN w THEN w["title"] ELSE row.title,
     description |-> IF "description" \in DOMAIN w THEN w["description"] ELSE row.description,
     priority |-> IF "priority" \in DOMAIN w THEN w["priority"] ELSE row.priority,
     status |-> IF "status" \in DOMAIN w THEN w["status"] ELSE row.status,
     created_at |-> row.created_at,
     completed_at |-> IF "completed_at" \in DOMAIN w THEN w["completed_at"] ELSE row.completed_at,
     result |-> IF "result" \in DOMAIN w THEN w["result"] ELSE row.result,
     error_message |-> IF "error_message" \in DOMAIN w THEN w["error_message"]
                       ELSE row.error_message]

\* ------------------------------------------------------------- repository
Max(S) == CHOOSE x \in S : \A y \in S : y <= x

\* An id taken from the number of rows: it meets a stored id once a row
\* other than the last has been deleted.
NextId_count(st) == Cardinality(DOMAIN st) + 1

NextId(st) == IF DOMAIN st = {} THEN 1 ELSE Max(DOMAIN st) + 1

\* INSERT: the row gets its id and the column default of created_at.
repo_create(st, task) == (NextId(st) :> [task EXCEPT !.created_at = clock]) @@ st

\* A delete with a wrong filter: every row up to the id goes.
repo_delete_upto(st, id) == [i \in {j \in DOMAIN st : j > id} |-> st[i]]

repo_delete(st, id) == [i \in DOMAIN st \ {id} |-> st[i]]

\* The lists of the ids of S, each id once.
Orders(S) ==
    {o \in [1..Cardinality(S) -> S] : \A i, j \in 1..Cardinality(S) : i # j => o[i] # o[j]}

\* ORDER BY created_at DESC: every list of S in which no row comes before a
\* row created later.  Rows of one created_at come in either order.
Descending(st, S) ==
    {o \in Orders(S) :
        \A i, j \in 1..Cardinality(S) : i < j => st[o[i]].created_at >= st[o[j]].created_at}

\* A LIMIT that is dropped: the whole result.
Take_all(s, n) == s

Take(s, n) == SubSeq(s, 1, IF Len(s) < n THEN Len(s) ELSE n)

\* A queue served by priority: the most urgent first, the newest among equals.
PriorityRank(p) == CASE p = "low" -> 1 [] p = "medium" -> 2 [] p = "high" -> 3 [] OTHER -> 4

get_pending_tasks_by_priority(st, limit) ==
    LET P == {i \in DOMAIN st : st[i].status = PENDING} IN
    {Take(o, limit) : o \in
        {p \in Orders(P) :
            \A i, j \in 1..Cardinality(P) :
                i < j => \/ PriorityRank(st[p[i]].priority) > PriorityRank(st[p[j]].priority)
                         \/ /\ PriorityRank(st[p[i]].priority) = PriorityRank(st[p[j]].priority)
                            /\ st[p[i]].created_at >= st[p[j]].created_at}}

\* The lists the query may return: the PENDING rows, newest first, LIMIT limit.
get_pending_tasks(st, limit) ==
    {Take(o, limit) : o \in Descending(st, {i \in DOMAIN st : st[i].status = PENDING})}

Drop(s, n) == IF n >= Len(s) THEN << >> ELSE SubSeq(s, n + 1, Len(s))

\* A page cut the wrong way round: the limit first, the offset after it.
get_all_limit_first(st, skip, limit, status, priority) ==
    {Drop(Take(o, limit), skip) : o \in
        Descending(st, {i \in DOMAIN st :
                           /\ status # Null => st[i].status = status
                           /\ priority # Null => st[i].priority = priority})}

\* The lists the query may return: the rows that pass the filters given,
\* newest first, OFFSET skip LIMIT limit.
get_all(st, skip, limit, status, priority) ==
    {Take(Drop(o, skip), limit) : o \in
        Descending(st, {i \in DOMAIN st :
                           /\ status # Null => st[i].status = status
                           /\ priority # Null => st[i].priority = priority})}

list_tasks(st, skip, limit, status, priority) == get_all(st, skip, limit, status, priority)

count_by_status(st, status) == Cardinality({i \in DOMAIN st : st[i].status = status})

\* ------------------------------------------------------------- service
create_task(st, title, description, priority) ==
    repo_create(st, Task(title, description, priority))

\* A plausible stricter update: the status of a terminal task is kept.
update_task_guarded(st, id, title, description, priority, status) ==
    IF id \notin DOMAIN st THEN st
    ELSE LET t == st[id]
             t1 == IF title # Null THEN [t EXCEPT !.title = title] ELSE t
             t2 == IF description # Null THEN [t1 EXCEPT !.description = description] ELSE t1
             t3 == IF priority # Null THEN [t2 EXCEPT !.priority = priority] ELSE t2
             t4 == IF status # Null /\ t.status \notin Terminal
                   THEN [t3 EXCEPT !.status = status,
                                   !.completed_at = IF status = COMPLETED THEN "utcnow" ELSE Null]
                   ELSE t3
         IN [st EXCEPT ![id] = t4]

\* An update that resets the outcome: a status that is set takes result and
\* error_message away.
update_task_reset(st, id, title, description, priority, status) ==
    IF id \notin DOMAIN st THEN st
    ELSE LET t == st[id]
             t1 == IF title # Null THEN [t EXCEPT !.title = title] ELSE t
             t2 == IF description # Null THEN [t1 EXCEPT !.description = description] ELSE t1
             t3 == IF priority # Null THEN [t2 EXCEPT !.priority = priority] ELSE t2
             t4 == IF status # Null
                   THEN [t3 EXCEPT !.status = status,
                                   !.completed_at = IF status = COMPLETED THEN "utcnow" ELSE Null,
                                   !.result = Null, !.error_message = Null]
                   ELSE t3
         IN [st EXCEPT ![id] = t4]

\* An update that stamps the row: created_at is refreshed like updated_at.
update_task_stamp(st, id, title, description, priority, status) ==
    IF id \notin DOMAIN st THEN st
    ELSE LET t == st[id]
             t1 == IF title # Null THEN [t EXCEPT !.title = title] ELSE t
             t2 == IF description # Null THEN [t1 EXCEPT !.description = description] ELSE t1
             t3 == IF priority # Null THEN [t2 EXCEPT !.priority = priority] ELSE t2
             t4 == IF status # Null
                   THEN [t3 EXCEPT !.status = status,
                                   !.completed_at = IF status = COMPLETED THEN "utcnow" ELSE Null]
                   ELSE t3
         IN [st EXCEPT ![id] = [t4 EXCEPT !.created_at = clock]]

update_task(st, id, title, description, priority, status) ==
    IF id \notin DOMAIN st THEN st
    ELSE LET t == st[id]
             t1 == IF title # Null THEN [t EXCEPT !.title = title] ELSE t
             t2 == IF description # Null THEN [t1 EXCEPT !.description = description] ELSE t1
             t3 == IF priority # Null THEN [t2 EXCEPT !.priority = priority] ELSE t2
             t4 == IF status # Null
                   THEN [t3 EXCEPT !.status = status,
                                   !.completed_at = IF status = COMPLETED THEN "utcnow" ELSE Null]
                   ELSE t3
         IN [st EXCEPT ![id] = t4]

process_guard(status) == status = PENDING

process_task(st, id) ==
    IF id \notin DOMAIN st THEN st
    ELSE IF ~process_guard(st[id].status) THEN st
    ELSE [st EXCEPT ![id].status = IN_PROGRESS]

process_task_ret(st, id) ==
    IF id \in DOMAIN st /\ process_guard(st[id].status) THEN "task" ELSE "none"

\* A plausible stricter completion: only a task in progress is completed.
complete_task_guarded(st, id, result) ==
    IF id \notin DOMAIN st \/ st[id].status # IN_PROGRESS THEN st
    ELSE [st EXCEPT ![id].status = COMPLETED,
                    ![id].completed_at = "utcnow",
                    ![id].result = IF Truthy(result) THEN result ELSE @]

complete_task(st, id, result) ==
    IF id \notin DOMAIN st THEN st
    ELSE [st EXCEPT ![id].status = COMPLETED,
                    ![id].completed_at = "utcnow",
                    ![id].result = IF Truthy(result) THEN result ELSE @]

\* A failure recorded by upsert: a row that is missing is written anew.
fail_task_upsert(st, id, error_message) ==
    IF id \notin DOMAIN st
    THEN (id :> [Task(Null, Null, "medium") EXCEPT !.status = FAILED,
                                                  !.error_message = error_message]) @@ st
    ELSE [st EXCEPT ![id].status = FAILED,
                    ![id].error_message = error_message]

fail_task(st, id, error_message) ==
    IF id \notin DOMAIN st THEN st
    ELSE [st EXCEPT ![id].status = FAILED,
                    ![id].error_message = error_message]

\* What update_task, complete_task and fail_task return: the task, or None
\* when get_by_id finds no row.
update_task_ret(st, id) == IF id \in DOMAIN st THEN "task" ELSE "none"
complete_task_ret(st, id) == IF id \in DOMAIN st THEN "task" ELSE "none"
fail_task_ret(st, id) == IF id \in DOMAIN st THEN "task" ELSE "none"

\* What delete_task returns: whether the repository found the row.
delete_task_ret(st, id) == id \in DOMAIN st

found(st, id) == IF id \in DOMAIN st THEN "task" ELSE "none"

\* Statistics that leave one status out: cancelled tasks are not counted.
get_stats_active(st) ==
    [pending |-> count_by_status(st, PENDING),
     in_progress |-> count_by_status(st, IN_PROGRESS),
     completed |-> count_by_status(st, COMPLETED),
     failed |-> count_by_status(st, FAILED),
     cancelled |-> 0]

get_stats(st) ==
    [pending |-> count_by_status(st, PENDING),
     in_progress |-> count_by_status(st, IN_PROGRESS),
     completed |-> count_by_status(st, COMPLETED),
     failed |-> count_by_status(st, FAILED),
     cancelled |-> count_by_status(st, CANCELLED)]

\* ------------------------------------------------------------- callers of the service
\* No call of the session is under way.
Idle == [op |-> "idle", id |-> 0, w |-> << >>]

\* POST /tasks: one INSERT.
CreateTask(title, description, priority) ==
    /\ NextId(store) <= MaxTasks
    /\ store' = create_task(store, title, description, priority)
    /\ UNCHANGED <<call, wvars>>

\* PUT /tasks/{task_id}, to its commit: get_by_id, then the assignments.  With
\* no row the call returns None at once.
UpdateTask(c, id, title, description, priority, status) ==
    /\ call[c].op = "idle"
    /\ IF update_task_ret(store, id) = "none" THEN UNCHANGED call
       ELSE call' = [call EXCEPT ![c] =
               [op |-> "update", id |-> id,
                w |-> Dirty(store[id],
                            update_task(store, id, title, description, priority, status)[id],
                            IF status = COMPLETED THEN {"completed_at"} ELSE {})]]
    /\ UNCHANGED <<store, wvars>>

\* DELETE /tasks/{task_id}, to its commit: get_by_id, then db.delete(task).
\* With no row the call returns False at once.
DeleteTask(c, id) ==
    /\ call[c].op = "idle"
    /\ IF ~delete_task_ret(store, id) THEN UNCHANGED call
       ELSE call' = [call EXCEPT ![c] = [op |-> "delete", id |-> id, w |-> << >>]]
    /\ UNCHANGED <<store, wvars>>

ProcessTask(c, id) ==
    /\ call[c].op = "idle"
    /\ IF process_task_ret(store, id) = "none" THEN UNCHANGED call
       ELSE call' = [call EXCEPT ![c] =
               [op |-> "process", id |-> id,
                w |-> Dirty(store[id], process_task(store, id)[id], {})]]
    /\ UNCHANGED <<store, wvars>>

CompleteTask(c, id, result) ==
    /\ call[c].op = "idle"
    /\ IF complete_task_ret(store, id) = "none" THEN UNCHANGED call
       ELSE call' = [call EXCEPT ![c] =
               [op |-> "complete", id |-> id,
                w |-> Dirty(store[id], complete_task(store, id, result)[id],
                            {"completed_at"})]]
    /\ UNCHANGED <<store, wvars>>

FailTask(c, id, error_message) ==
    /\ call[c].op = "idle"
    /\ IF fail_task_ret(store, id) = "none" THEN UNCHANGED call
       ELSE call' = [call EXCEPT ![c] =
               [op |-> "fail", id |-> id,
                w |-> Dirty(store[id], fail_task(store, id, error_message)[id], {})]]
    /\ UNCHANGED <<store, wvars>>

\* repository.update: the commit flushes the dirty columns to the row of the
\* id.  If the row is gone by then the UPDATE matches nothing and the call
\* raises (StaleDataError), the store as it is.  The refresh that follows
\* reads the row for the caller and writes nothing; here it is part of the
\* step, since the request ends either way and leaves nothing behind.
Commit(c) ==
    /\ call[c].op \in {"update", "process", "complete", "fail"}
    /\ store' = IF call[c].id \in DOMAIN store
                THEN [store EXCEPT ![call[c].id] = Flush(@, call[c].w)]
                ELSE store
    /\ call' = [call EXCEPT ![c] = Idle]
    /\ UNCHANGED wvars

\* repository.delete: the commit issues the DELETE; a DELETE that matches
\* nothing any more is no error, and the call returns True all the same.
DeleteCommit(c) ==
    /\ call[c].op = "delete"
    /\ store' = repo_delete(store, call[c].id)
    /\ call' = [call EXCEPT ![c] = Idle]
    /\ UNCHANGED wvars

Init ==
    /\ store = << >>
    /\ call = [c \in Callers |-> Idle]
    /\ running = [w \in Workers |-> FALSE]
    /\ lpc = [l \in Loops |-> "idle"]
    /\ lowner = [l \in Loops |-> "w1"]
    /\ batch = [l \in Loops |-> << >>]
    /\ unit = [l \in Loops |-> << >>]
    /\ uw = [l \in Loops |-> << >>]
    /\ faults = 0
    /\ polls = 0
    /\ clock = 0

\* ------------------------------------------------------------- TaskWorker
\* The coroutine has returned: through its try block ("ok"), through the
\* except block whose fail_task returned ("failed"), or through the except
\* block whose fail_task raised as well ("lost").
Final == {"ok", "failed", "lost"}
\* A coroutine between the read of a service call and its commit.
Writing == {"mark", "finish", "handle"}
\* A coroutine between the commit of a service call and its refresh.
Refreshing == {"marked", "finished", "handled"}
\* A coroutine in its except block, before the lookup of its fail_task: the
\* session is usable ("raised"), or its transaction was rolled back by a
\* failed flush and nothing has issued rollback() ("broken").
Excepting == {"raised", "broken"}
\* What the except block has caught.
Caught(msg) == [error_message |-> msg]

SetUnit(l, i, u) == [unit EXCEPT ![l][i] = u]
SetUw(l, i, x) == [uw EXCEPT ![l][i] = x]

\* start(): a second call while running only warns; otherwise the calling
\* thread sets the flag and runs worker_loop until it returns.
Start(w) ==
    /\ ~running[w]
    /\ \E l \in Loops :
          /\ lpc[l] = "idle"
          /\ lpc' = [lpc EXCEPT ![l] = "check"]
          /\ lowner' = [lowner EXCEPT ![l] = w]
    /\ running' = [running EXCEPT ![w] = TRUE]
    /\ UNCHANGED <<store, call, batch, unit, uw, faults, polls, clock>>

\* start() in a thread that runs an event loop already: the flag is set
\* and asyncio.run(self.worker_loop()) raises at once.  No worker_loop runs.
StartCrash(w) ==
    /\ ~running[w]
    /\ \E l \in Loops :
          /\ lpc[l] = "idle"
          /\ lpc' = [lpc EXCEPT ![l] = "crash"]
          /\ lowner' = [lowner EXCEPT ![l] = w]
    /\ running' = [running EXCEPT ![w] = TRUE]
    /\ UNCHANGED <<store, call, batch, unit, uw, faults, polls, clock>>

\* except Exception of start(): 'Worker crashed', and the flag is cleared.
StartRaise(l) ==
    /\ lpc[l] = "crash"
    /\ lpc' = [lpc EXCEPT ![l] = "idle"]
    /\ running' = [running EXCEPT ![lowner[l]] = FALSE]
    /\ UNCHANGED <<store, call, lowner, batch, unit, uw, faults, polls, clock>>

\* Ctrl-C in the thread of start(): the KeyboardInterrupt ends asyncio.run,
\* which cancels worker_loop and the coroutines of its batch where they
\* stand, whatever they have not written stays unwritten, and except
\* KeyboardInterrupt clears the flag (cleared).  The flag stays as it is
\* (~cleared) when the KeyboardInterrupt leaves start() before the
\* assignment that clears it: raised between self.running = True and the
\* try, raised a second time inside except KeyboardInterrupt before
\* self.running = False, or raised inside except Exception before its
\* self.running = False.
Interrupt(l, cleared) ==
    /\ lpc[l] # "idle"
    /\ lpc' = [lpc EXCEPT ![l] = "idle"]
    /\ batch' = [batch EXCEPT ![l] = << >>]
    /\ unit' = [unit EXCEPT ![l] = << >>]
    /\ uw' = [uw EXCEPT ![l] = << >>]
    /\ running' = IF cleared THEN [running EXCEPT ![lowner[l]] = FALSE] ELSE running
    /\ UNCHANGED <<store, call, lowner, faults, polls, clock>>

\* A stop that cancels what is in flight: the coroutines of the worker's batch
\* are abandoned where they stand.
Stop_cancel(w) ==
    /\ running' = [running EXCEPT ![w] = FALSE]
    /\ unit' = [l \in Loops |->
                  IF lowner[l] = w
                  THEN [i \in DOMAIN unit[l] |->
                           IF unit[l][i] \in Final THEN unit[l][i] ELSE "lost"]
                  ELSE unit[l]]
    /\ UNCHANGED <<store, call, lpc, lowner, batch, uw, faults, polls, clock>>

\* stop(): the flag is cleared, nothing else.
Stop(w) ==
    /\ running' = [running EXCEPT ![w] = FALSE]
    /\ UNCHANGED <<store, call, lpc, lowner, batch, unit, uw, faults, polls, clock>>

\* A while that does not read the flag: the loop never returns.
LoopCheck_forever(l) ==
    /\ lpc[l] = "check"
    /\ lpc' = [lpc EXCEPT ![l] = "poll"]
    /\ UNCHANGED <<store, call, running, lowner, batch, unit, uw, faults, polls, clock>>

\* while self.running:
LoopCheck(l) ==
    /\ lpc[l] = "check"
    /\ lpc' = [lpc EXCEPT ![l] = IF running[lowner[l]] THEN "poll" ELSE "idle"]
    /\ UNCHANGED <<store, call, running, lowner, batch, unit, uw, faults, polls, clock>>

\* pending_tasks = service.get_pending_tasks(limit=self.concurrency), and the
\* branch on it: the coroutines of the batch are created, or the loop sleeps.
Poll(l) ==
    /\ lpc[l] = "poll"
    /\ \E pending \in get_pending_tasks(store, Concurrency) :
          /\ batch' = [batch EXCEPT ![l] = pending]
          /\ unit' = [unit EXCEPT ![l] = [i \in 1..Len(pending) |-> "start"]]
          /\ uw' = [uw EXCEPT ![l] = [i \in 1..Len(pending) |-> << >>]]
          /\ lpc' = [lpc EXCEPT ![l] = IF pending # << >> THEN "gather" ELSE "sleep"]
    /\ UNCHANGED <<store, call, running, lowner, faults>>

LoopPoll(l) == Poll(l) /\ UNCHANGED <<polls, clock>>

\* The same poll, counted: the history variable goes up to MaxPolls.
CountedPoll(l) ==
    /\ Poll(l)
    /\ polls' = IF polls < MaxPolls THEN polls + 1 ELSE polls
    /\ UNCHANGED clock

\* A poll error that is not caught ends worker_loop.
LoopPollError_exit(l) ==
    /\ lpc[l] = "poll"
    /\ faults < MaxFaults
    /\ faults' = faults + 1
    /\ lpc' = [lpc EXCEPT ![l] = "idle"]
    /\ UNCHANGED <<store, call, running, lowner, batch, unit, uw, polls, clock>>

\* The poll raises: except Exception, log, await asyncio.sleep(poll_interval).
LoopPollError(l) ==
    /\ lpc[l] = "poll"
    /\ faults < MaxFaults
    /\ faults' = faults + 1
    /\ lpc' = [lpc EXCEPT ![l] = "errsleep"]
    /\ UNCHANGED <<store, call, running, lowner, batch, unit, uw, polls, clock>>

\* Either sleep ends; the loop is back at its while.
LoopWake(l) ==
    /\ lpc[l] \in {"sleep", "errsleep"}
    /\ lpc' = [lpc EXCEPT ![l] = "check"]
    /\ UNCHANGED <<store, call, running, lowner, batch, unit, uw, faults, polls, clock>>

\* gather starts the coroutines in list order; each runs to its first await.
\* and no other before it has reached its own.
CanStart(l, i) ==
    /\ lpc[l] = "gather"
    /\ i \in 1..Len(batch[l])
    /\ unit[l][i] = "start"
    /\ \A j \in 1..(i - 1) : unit[l][j] \notin {"start", "mark", "marked"}

\* The coroutine is at the place given.
At(l, i, pcs) ==
    /\ lpc[l] = "gather"
    /\ i \in 1..Len(batch[l])
    /\ unit[l][i] \in pcs

\* The event loop runs one coroutine at a time, from one await to the next:
\* none takes a step while another of the same loop is inside a service call.
Free(l, i) ==
    \A j \in 1..Len(unit[l]) :
        j # i => unit[l][j] \notin Writing \cup Refreshing \cup Excepting

\* process_task, to the commit of service.process_task(task.id): get_by_id
\* and the guard.  A task that is missing or not PENDING gives None, which
\* the coroutine drops before it goes to sleep.
UnitStart(l, i) ==
    /\ CanStart(l, i)
    /\ Free(l, i)
    /\ LET id == batch[l][i] IN
       IF process_task_ret(store, id) = "none"
       THEN unit' = SetUnit(l, i, "work") /\ uw' = SetUw(l, i, << >>)
       ELSE /\ unit' = SetUnit(l, i, "mark")
            /\ uw' = SetUw(l, i, Dirty(store[id], process_task(store, id)[id], {}))
    /\ UNCHANGED <<store, call, running, lpc, lowner, batch, faults, polls, clock>>

\* process_task, after the sleep, to the commit: the dice, then fail_task or
\* complete_task.  The session holds no object by then (it keeps none that
\* the coroutine has dropped), so get_by_id loads the row as it is now: it
\* gives None (the coroutine ends) or the object to change.
UnitFinish(l, i, success) ==
    /\ At(l, i, {"work"})
    /\ Free(l, i)
    /\ LET id == batch[l][i] IN
       IF id \notin DOMAIN store
       THEN unit' = SetUnit(l, i, "ok") /\ uw' = SetUw(l, i, << >>)
       ELSE /\ unit' = SetUnit(l, i, "finish")
            /\ uw' = SetUw(l, i,
                  IF success
                  THEN Dirty(store[id],
                             complete_task(store, id, WorkerResult(id))[id],
                             {"completed_at"})
                  ELSE Dirty(store[id], fail_task(store, id, SimulatedError)[id], {}))
    /\ UNCHANGED <<store, call, running, lpc, lowner, batch, faults, polls, clock>>

\* db.commit() of the coroutine's service call: the UPDATE of the dirty
\* columns, none when no column is dirty.  If the row is gone the UPDATE
\* matches nothing and the flush raises (StaleDataError): in the try block
\* that leads to the except block with the session's transaction rolled
\* back, in the except block's own fail_task it is logged.
UnitCommit(l, i) ==
    /\ At(l, i, Writing)
    /\ LET id == batch[l][i]
           next == CASE unit[l][i] = "mark" -> "marked"
                     [] unit[l][i] = "finish" -> "finished"
                     [] OTHER -> "handled"
       IN IF id \in DOMAIN store
          THEN /\ store' = [store EXCEPT ![id] = Flush(@, uw[l][i])]
               /\ unit' = SetUnit(l, i, next)
          ELSE /\ unit' = SetUnit(l, i,
                     IF DOMAIN uw[l][i] = {} THEN next
                     ELSE IF unit[l][i] = "handle" THEN "lost" ELSE "broken")
               /\ UNCHANGED store
    /\ uw' = SetUw(l, i, << >>)
    /\ UNCHANGED <<call, running, lpc, lowner, batch, faults, polls, clock>>

\* db.refresh(task) after the commit: a SELECT of the row.  With the row
\* there, process_task goes on to its sleep and complete_task or fail_task
\* return.  With the row deleted since the commit the refresh raises: in the
\* try block that leads to the except block, in the except block's own
\* fail_task it is logged.
UnitRefresh(l, i) ==
    /\ At(l, i, Refreshing)
    /\ IF batch[l][i] \in DOMAIN store
       THEN /\ unit' = SetUnit(l, i, CASE unit[l][i] = "marked" -> "work"
                                       [] unit[l][i] = "finished" -> "ok"
                                       [] OTHER -> "failed")
            /\ UNCHANGED uw
       ELSE IF unit[l][i] = "handled"
       THEN unit' = SetUnit(l, i, "lost") /\ UNCHANGED uw
       ELSE unit' = SetUnit(l, i, "raised") /\ uw' = SetUw(l, i, Caught(RefreshError))
    /\ UNCHANGED <<store, call, running, lpc, lowner, batch, faults, polls, clock>>

\* An except block that rolls the session back before it calls fail_task:
\* the lookup gets through after a failed commit as well.
UnitHandle_rollback(l, i) ==
    /\ At(l, i, Excepting)
    /\ LET id == batch[l][i]
           msg == IF unit[l][i] = "broken" THEN StoreError ELSE uw[l][i]["error_message"]
       IN IF id \notin DOMAIN store
          THEN unit' = SetUnit(l, i, "failed") /\ uw' = SetUw(l, i, << >>)
          ELSE /\ unit' = SetUnit(l, i, "handle")
               /\ uw' = SetUw(l, i, Dirty(store[id], fail_task(store, id, msg)[id], {}))
    /\ UNCHANGED <<store, call, running, lpc, lowner, batch, faults, polls, clock>>

\* The except block: error_service.fail_task(task.id, str(e)) on the same
\* session, to its commit.  Its get_by_id finds no row (None is returned) or
\* gives the row as it is now, to mark FAILED with the message.  On a
\* session whose transaction a failed flush has rolled back the lookup
\* raises; that exception is logged and the coroutine ends.
UnitHandle(l, i) ==
    /\ At(l, i, Excepting)
    /\ LET id == batch[l][i] IN
       IF unit[l][i] = "broken"
       THEN unit' = SetUnit(l, i, "lost") /\ uw' = SetUw(l, i, << >>)
       ELSE IF id \notin DOMAIN store
       THEN unit' = SetUnit(l, i, "failed") /\ uw' = SetUw(l, i, << >>)
       ELSE /\ unit' = SetUnit(l, i, "handle")
            /\ uw' = SetUw(l, i, Dirty(store[id],
                                       fail_task(store, id, uw[l][i]["error_message"])[id],
                                       {}))
    /\ UNCHANGED <<store, call, running, lpc, lowner, batch, faults, polls, clock>>

\* A raise that is not confined to its coroutine ends the whole batch.
AfterRaise_abort(us, i, u) ==
    [j \in DOMAIN us |-> IF j = i THEN u ELSE IF us[j] \in Final THEN us[j] ELSE "lost"]

\* What a raising unit does to the units of its batch: the except block of
\* process_task confines the exception to its own coroutine.
AfterRaise(us, i, u) == [us EXCEPT ![i] = u]

\* A SELECT of the coroutine's service call raises a store error: the
\* get_by_id before the assignments, or the refresh after the commit.  In
\* the try block that leads to except Exception; when the store error lasts,
\* the lookup of the except block's fail_task raises as well, which is
\* logged and ends the coroutine.  In the except block's own fail_task (its
\* get_by_id or its refresh) the exception is logged and the coroutine ends.
UnitRaise(l, i, handled) ==
    /\ faults < MaxFaults
    /\ CanStart(l, i) \/ At(l, i, {"work", "raised"} \cup Refreshing)
    /\ Free(l, i)
    /\ faults' = faults + 1
    /\ IF ~handled \/ unit[l][i] \in {"handled", "raised"}
       THEN /\ unit' = [unit EXCEPT ![l] = AfterRaise(@, i, "lost")]
            /\ uw' = SetUw(l, i, << >>)
       ELSE /\ unit' = [unit EXCEPT ![l] = AfterRaise(@, i, "raised")]
            /\ uw' = SetUw(l, i, Caught(StoreError))
    /\ UNCHANGED <<store, call, running, lpc, lowner, batch, polls, clock>>

\* The commit of the coroutine's service call raises a store error: the
\* flush fails, nothing is written, and the session's transaction is rolled
\* back.  In the try block that leads to except Exception, which issues no
\* rollback(); in the except block's own fail_task the exception is logged
\* and the coroutine ends.
WriteFails(l, i) ==
    /\ faults < MaxFaults
    /\ At(l, i, Writing)
    /\ faults' = faults + 1
    /\ unit' = [unit EXCEPT ![l] =
                   AfterRaise(@, i, IF unit[l][i] = "handle" THEN "lost" ELSE "broken")]
    /\ uw' = SetUw(l, i, << >>)
    /\ UNCHANGED <<store, call, running, lpc, lowner, batch, polls, clock>>

\* gather returns when every coroutine of the batch has; db.close(), loop.
LoopGatherDone(l) ==
    /\ lpc[l] = "gather"
    /\ \A i \in 1..Len(batch[l]) : unit[l][i] \in Final
    /\ lpc' = [lpc EXCEPT ![l] = "check"]
    /\ batch' = [batch EXCEPT ![l] = << >>]
    /\ unit' = [unit EXCEPT ![l] = << >>]
    /\ uw' = [uw EXCEPT ![l] = << >>]
    /\ UNCHANGED <<store, call, running, lowner, faults, polls, clock>>

\* The steps of the coroutines of the loops.
UnitStep ==
    \/ \E l \in Loops, i \in 1..Concurrency : UnitStart(l, i)
    \/ \E l \in Loops, i \in 1..Concurrency, ok \in BOOLEAN : UnitFinish(l, i, ok)
    \/ \E l \in Loops, i \in 1..Concurrency : UnitCommit(l, i)
    \/ \E l \in Loops, i \in 1..Concurrency : UnitRefresh(l, i)

\* The except blocks of the coroutines: entered where a store error is
\* raised or a row is deleted under a coroutine.
ExceptStep == \E l \in Loops, i \in 1..Concurrency : UnitHandle(l, i)

\* The steps of the loop threads.
LoopStep ==
    \/ \E l \in Loops : LoopCheck(l)
    \/ \E l \in Loops : LoopPoll(l)
    \/ \E l \in Loops : LoopWake(l)
    \/ \E l \in Loops : LoopGatherDone(l)

WorkerStep(ws) ==
    \/ \E w \in ws : Start(w)
    \/ \E w \in ws : Stop(w)
    \/ LoopStep
    \/ UnitStep

\* Store errors, at most MaxFaults of them.
FaultStep ==
    \/ \E l \in Loops : LoopPollError(l)
    \/ \E l \in Loops, i \in 1..Concurrency, h \in BOOLEAN : UnitRaise(l, i, h)
    \/ \E l \in Loops, i \in 1..Concurrency : WriteFails(l, i)

\* ------------------------------------------------------------- two workers, a healthy store
\* Users create tasks; the store raises no error.
WorkerNext ==
    \/ CreateTask("a", Null, "medium")
    \/ WorkerStep(Workers)

WorkerSpec == Init /\ [][WorkerNext]_vars

\* The event loop runs every coroutine that can run, and every sleep ends:
\* no step of a loop thread or of a unit stays enabled forever without
\* being taken, and a start() whose asyncio.run raised reaches its except
\* branch.
LoopFair ==
    \A l \in Loops :
        /\ WF_vars(StartRaise(l))
        /\ WF_vars(LoopCheck(l))
        /\ WF_vars(LoopPoll(l))
        /\ WF_vars(LoopWake(l))
        /\ WF_vars(LoopGatherDone(l))
        /\ \A i \in 1..Concurrency :
              /\ WF_vars(UnitStart(l, i))
              /\ WF_vars(\E ok \in BOOLEAN : UnitFinish(l, i, ok))
              /\ WF_vars(UnitCommit(l, i))
              /\ WF_vars(UnitRefresh(l, i))
              /\ WF_vars(UnitHandle(l, i))

\* ------------------------------------------------------------- one worker, started and stopped
\* Users create tasks, and one worker is started and stopped by start() and
\* stop() at any time.  The event loops are fair.
StopNext ==
    \/ CreateTask("a", Null, "medium")
    \/ WorkerStep({"w1"})

StopSpec == Init /\ [][StopNext]_vars /\ LoopFair

\* ------------------------------------------------------------- a worker left alone
\* Users only create tasks: no task is deleted or updated, and the store
\* raises no error.  The event loops are fair.  The worker is stopped by
\* stop() or by Ctrl-C, and start() is also called where asyncio.run raises.
SignalStep ==
    \/ StartCrash("w1")
    \/ \E l \in Loops : StartRaise(l)
    \/ \E l \in Loops, cleared \in BOOLEAN : Interrupt(l, cleared)

LiveNext ==
    \/ CreateTask("a", Null, "medium")
    \/ WorkerStep({"w1"})
    \/ SignalStep

LiveSpec == Init /\ [][LiveNext]_vars /\ LoopFair

\* ------------------------------------------------------------- the API, a worker, store errors
\* Users create, cancel and delete tasks; the worker is started again only
\* once its loop has returned.
ApiStep ==
    \/ CreateTask("a", Null, "medium")
    \/ \E id \in Ids : UpdateTask("a", id, Null, Null, Null, CANCELLED)
    \/ \E id \in Ids : DeleteTask("a", id)
    \/ Commit("a")
    \/ DeleteCommit("a")

StartAlone(w) == (\A l \in Loops : lpc[l] = "idle") /\ Start(w)

Next ==
    \/ ApiStep
    \/ StartAlone("w1")
    \/ Stop("w1")
    \/ LoopStep
    \/ UnitStep
    \/ ExceptStep
    \/ FaultStep

Spec == Init /\ [][Next]_vars

\* ------------------------------------------------------------- a worker and store errors
\* Users only create tasks; one worker is started, stopped and started again
\* once its loop has returned, and the store raises errors.  The event loops
\* are fair.
FaultNext ==
    \/ CreateTask("a", Null, "medium")
    \/ StartAlone("w1")
    \/ Stop("w1")
    \/ LoopStep
    \/ UnitStep
    \/ ExceptStep
    \/ FaultStep

FaultSpec == Init /\ [][FaultNext]_vars /\ LoopFair

\* ------------------------------------------------------------- a worker, store errors and signals
\* The same without fairness, and the worker is also ended by Ctrl-C and
\* started where start() raises.
SignalNext ==
    \/ FaultNext
    \/ SignalStep

SignalSpec == Init /\ [][SignalNext]_vars

\* ------------------------------------------------------------- the service alone
\* The arguments the calls are tried with.
Results == {Null, "", "r"}
Messages == {"e"}

\* Two sessions call the service, a call of one coming between the read and
\* the commit of a call of the other or not: session "a" makes every call,
\* session "b" marks, completes and deletes.
SvcNext ==
    \/ CreateTask("a", Null, "medium")
    \/ \E id \in Ids \cup {UnknownId} : ProcessTask("a", id)
    \/ \E id \in Ids \cup {UnknownId}, r \in Results : CompleteTask("a", id, r)
    \/ \E id \in Ids \cup {UnknownId}, m \in Messages : FailTask("a", id, m)
    \/ \E id \in Ids \cup {UnknownId}, s \in TaskStatus \cup {Null} :
          UpdateTask("a", id, Null, Null, Null, s)
    \/ \E id \in Ids \cup {UnknownId} : DeleteTask("a", id)
    \/ \E id \in Ids : ProcessTask("b", id)
    \/ \E id \in Ids : CompleteTask("b", id, "r")
    \/ \E id \in Ids : DeleteTask("b", id)
    \/ \E c \in Callers : Commit(c)
    \/ \E c \in Callers : DeleteCommit(c)

SvcSpec == Init /\ [][SvcNext]_vars

\* ------------------------------------------------------------- time passes
\* The clock is read between the calls: it goes on, and it is set back
\* (utcnow is the wall clock).
Tick ==
    /\ \E t \in 0..MaxClock : t # clock /\ clock' = t
    /\ UNCHANGED <<store, call, running, lpc, lowner, batch, unit, uw, faults, polls>>

\* ------------------------------------------------------------- tasks of every priority
\* Users create tasks of different priorities at any time, change priorities
\* and statuses and delete tasks; the queries are asked of the stores this
\* gives.
QueryNext ==
    \/ Tick
    \/ \E p \in {"low", "urgent"} : CreateTask("a", Null, p)
    \/ \E id \in Ids : UpdateTask("a", id, Null, Null, "high", Null)
    \/ \E id \in Ids, s \in {PENDING, COMPLETED} :
          UpdateTask("a", id, Null, Null, Null, s)
    \/ \E id \in Ids : DeleteTask("a", id)
    \/ Commit("a")
    \/ DeleteCommit("a")

QuerySpec == Init /\ [][QueryNext]_vars

\* ------------------------------------------------------------- a worker while time passes
\* The clock changes between the calls of the service and the steps of one
\* worker, so tasks differ in created_at.  Users create tasks and retitle them.
ClockNext ==
    \/ Tick
    \/ CreateTask("a", Null, "medium")
    \/ \E id \in Ids : UpdateTask("a", id, "b", Null, Null, Null)
    \/ Commit("a")
    \/ Start("w1")
    \/ LoopStep
    \/ UnitStep

ClockSpec == Init /\ [][ClockNext]_vars

\* ------------------------------------------------------------- tasks keep coming
\* One worker is started and never stopped, its event loop fair.  Users go
\* on creating tasks, up to one more than the worker takes in a batch, and
\* delete tasks, which is what lets the creating go on for ever within a
\* bounded table.  The clock only goes on.
CreateTaskWithin(n, title, description, priority) ==
    /\ NextId(store) <= n
    /\ store' = create_task(store, title, description, priority)
    /\ UNCHANGED <<call, wvars>>

TickOn ==
    /\ clock < MaxClock
    /\ clock' = clock + 1
    /\ UNCHANGED <<store, call, running, lpc, lowner, batch, unit, uw, faults, polls>>

StarveNext ==
    \/ TickOn
    \/ CreateTaskWithin(Concurrency + 1, "a", Null, "medium")
    \/ \E id \in 1..(Concurrency + 1) : DeleteTask("a", id)
    \/ DeleteCommit("a")
    \/ Start("w1")
    \/ LoopStep
    \/ UnitStep
    \/ ExceptStep

StarveSpec == Init /\ [][StarveNext]_vars /\ LoopFair

\* ------------------------------------------------------------- one worker drains a queue
\* Some tasks have been created, all PENDING, and one worker has been
\* started; from then on nobody but that worker touches the store, and the
\* store raises no error.  Its polls are counted.
DrainInit ==
    /\ \E n \in 0..(2 * MaxTasks) :
          store = [i \in 1..n |-> [Task("a", Null, "medium") EXCEPT !.created_at = 0]]
    /\ call = [c \in Callers |-> Idle]
    /\ running = [w \in Workers |-> w = "w1"]
    /\ lpc = [l \in Loops |-> IF l = "l1" THEN "check" ELSE "idle"]
    /\ lowner = [l \in Loops |-> "w1"]
    /\ batch = [l \in Loops |-> << >>]
    /\ unit = [l \in Loops |-> << >>]
    /\ uw = [l \in Loops |-> << >>]
    /\ faults = 0
    /\ polls = 0
    /\ clock = 0

DrainNext ==
    \/ \E l \in Loops : LoopCheck(l)
    \/ \E l \in Loops : CountedPoll(l)
    \/ \E l \in Loops : LoopWake(l)
    \/ \E l \in Loops : LoopGatherDone(l)
    \/ UnitStep

DrainSpec == DrainInit /\ [][DrainNext]_vars

\* ------------------------------------------------------------- properties
Range(f) == {f[i] : i \in DOMAIN f}

\* C1 (WorkerSpec): claim exclusivity.  No task is in the batches of two
\* loops at once: a task handed to one poller is handed to no other.
C1_ClaimExclusive ==
    \A l1 \in Loops, l2 \in Loops :
        l1 # l2 => Range(batch[l1]) \cap Range(batch[l2]) = {}

\* C2 (WorkerSpec): at most one outcome per task.  A unit commits COMPLETED
\* or FAILED for a task only if no outcome is recorded for that task yet.
C2_OutcomeOnce ==
    [][\A l \in Loops, i \in 1..Concurrency :
          ( /\ i <= Len(unit[l]) /\ i <= Len(unit'[l])
            /\ unit[l][i] = "finish"
            /\ unit'[l][i] = "finished"
            /\ batch[l][i] \in DOMAIN store )
          => store[batch[l][i]].status \notin {COMPLETED, FAILED}]_vars

\* C3 (Spec): no worker step on a terminal task.  A step of a worker unit
\* leaves status, result and error_message of every task that is COMPLETED,
\* FAILED or CANCELLED as they are.
C3_NoStepOnTerminal ==
    [][\A t \in DOMAIN store :
          (unit' # unit /\ store[t].status \in Terminal)
          => /\ t \in DOMAIN store'
             /\ store'[t].status = store[t].status
             /\ store'[t].result = store[t].result
             /\ store'[t].error_message = store[t].error_message]_vars

\* C4 as claimed (SvcSpec): the commit of a complete_task or fail_task call
\* changes a task's status only if the status was IN_PROGRESS immediately
\* before.
C4_OnlyFromInProgress ==
    [][\A c \in Callers :
          ( /\ Commit(c)
            /\ call[c].op \in {"complete", "fail"}
            /\ call[c].id \in DOMAIN store
            /\ store'[call[c].id].status # store[call[c].id].status )
          => store[call[c].id].status = IN_PROGRESS]_vars

\* C4 as amended (SvcSpec): complete_task and fail_task test no status.  In
\* every store reached, complete_task, run with no other write to the task
\* before its commit, leaves a stored task COMPLETED and fail_task leaves it
\* FAILED whatever its status before, PENDING included; and whenever the
\* commit of such a call changes the status of a task, whatever that status
\* was, the new status is COMPLETED for complete_task and FAILED for
\* fail_task.
C4_Unguarded ==
    /\ [](\A id \in DOMAIN store :
             /\ \A r \in Results : complete_task(store, id, r)[id].status = COMPLETED
             /\ \A m \in Messages : fail_task(store, id, m)[id].status = FAILED)
    /\ [][\A c \in Callers :
             ( /\ Commit(c)
               /\ call[c].op \in {"complete", "fail"}
               /\ call[c].id \in DOMAIN store
               /\ store'[call[c].id].status # store[call[c].id].status )
             => store'[call[c].id].status =
                   IF call[c].op = "complete" THEN COMPLETED ELSE FAILED]_vars

\* C4's case: a complete_task call has read a task that is PENDING and is
\* about to commit COMPLETED on it, the task still PENDING.
C4_Witness ==
    \E c \in Callers :
        /\ call[c].op = "complete"
        /\ call[c].id \in DOMAIN store
        /\ store[call[c].id].status = PENDING
        /\ "status" \in DOMAIN call[c].w
        /\ call[c].w["status"] = COMPLETED
        /\ complete_task(store, call[c].id, "r")[call[c].id].status = COMPLETED

\* C5 (SvcSpec): every stored task has completed_at set if and only if its
\* status is COMPLETED.
C5_CompletedAtIff ==
    \A id \in DOMAIN store :
        store[id].completed_at # Null <=> store[id].status = COMPLETED

\* C6 (WorkerSpec): a COMPLETED task has a result and no error_message, a
\* FAILED task an error_message and no result.
C6_ExactlyOne ==
    \A id \in DOMAIN store :
        /\ store[id].status = COMPLETED
              => Truthy(store[id].result) /\ ~Truthy(store[id].error_message)
        /\ store[id].status = FAILED
              => Truthy(store[id].error_message) /\ ~Truthy(store[id].result)

\* C7 (SvcSpec): a PENDING or IN_PROGRESS task has neither a result nor an
\* error_message.
C7_EmptyWhileActive ==
    \A id \in DOMAIN store :
        store[id].status \in {PENDING, IN_PROGRESS}
            => ~Truthy(store[id].result) /\ ~Truthy(store[id].error_message)

\* C8 as claimed (SvcSpec): the commit of an update_task call leaves the
\* status of a COMPLETED, FAILED or CANCELLED task as it is.
C8_TerminalStatusKept ==
    [][\A c \in Callers :
          ( /\ Commit(c)
            /\ call[c].op = "update"
            /\ call[c].id \in DOMAIN store
            /\ store[call[c].id].status \in Terminal )
          => store'[call[c].id].status = store[call[c].id].status]_vars

\* C8 as amended (SvcSpec): update_task with a status sets the status of a
\* stored task to it whatever the current status, terminal or not.
C8_StatusOverride ==
    \A id \in DOMAIN store, s \in TaskStatus :
        update_task(store, id, Null, Null, Null, s)[id].status = s

\* C8's case: a terminal task whose status update_task changes.
C8_Witness ==
    \E id \in DOMAIN store, s \in TaskStatus \ Terminal :
        /\ store[id].status \in Terminal
        /\ update_task(store, id, Null, Null, Null, s)[id].status = s

\* The coroutine has been in its except block.
Excepted == Excepting \cup {"handle", "handled", "failed", "lost"}

\* C9 (FaultSpec): an exception in one unit stays in that unit.  The step
\* in which a unit raises leaves every other unit of the batch where it
\* stands and the loop in its gather; a unit that commits the end of its
\* work on a stored task leaves it COMPLETED or FAILED; the gather ends only
\* with every unit of the batch ended, the loop then going back to its
\* while; every other unit of a batch in which a unit has raised goes on to
\* its end with the outcome of its task recorded, COMPLETED or FAILED,
\* unless an exception is raised in that unit as well; and
\* the loop of that batch goes on to its next poll, or returns when the
\* worker was stopped.
C9_RaiseConfined ==
    /\ [][\A l \in Loops :
             /\ \A i \in 1..Len(unit[l]), j \in 1..Len(unit[l]) :
                   ( /\ i # j /\ Len(unit'[l]) = Len(unit[l])
                     /\ unit'[l][i] # unit[l][i]
                     /\ unit'[l][i] \in Excepted )
                   => /\ unit'[l][j] = unit[l][j]
                      /\ uw'[l][j] = uw[l][j]
                      /\ lpc'[l] = "gather"
             /\ \A j \in 1..Len(unit[l]) :
                   ( /\ Len(unit'[l]) = Len(unit[l])
                     /\ unit[l][j] = "finish" /\ unit'[l][j] = "finished"
                     /\ batch[l][j] \in DOMAIN store )
                   => store'[batch[l][j]].status \in {COMPLETED, FAILED}
             /\ (lpc[l] = "gather" /\ lpc'[l] # "gather")
                   => /\ lpc'[l] = "check"
                      /\ \A j \in 1..Len(unit[l]) : unit[l][j] \in Final]_vars
    /\ \A l \in Loops, i \in 1..Concurrency, j \in 1..Concurrency :
          ( /\ lpc[l] = "gather" /\ i # j
            /\ i <= Len(unit[l]) /\ j <= Len(unit[l])
            /\ unit[l][i] \in Excepted /\ unit[l][j] \notin Final )
          ~> ( /\ lpc[l] = "gather" /\ j <= Len(unit[l])
               /\ \/ unit[l][j] \in Excepted
                  \/ /\ unit[l][j] = "ok"
                     /\ batch[l][j] \in DOMAIN store
                     /\ store[batch[l][j]].status \in {COMPLETED, FAILED} )
    /\ \A l \in Loops, i \in 1..Concurrency :
          (lpc[l] = "gather" /\ i <= Len(unit[l]) /\ unit[l][i] \in Excepted)
          ~> (lpc[l] \in {"poll", "idle"})

\* C9's case: a batch of two, one unit ended by an exception, the other ended
\* normally with its task COMPLETED.
C9_Witness ==
    \E l \in Loops :
        /\ lpc[l] = "gather"
        /\ Len(batch[l]) = 2
        /\ faults > 0
        /\ \E i \in 1..2, j \in 1..2 :
              /\ unit[l][i] \in {"failed", "lost"}
              /\ unit[l][j] = "ok"
              /\ batch[l][j] \in DOMAIN store
              /\ store[batch[l][j]].status = COMPLETED

\* C10 as claimed (SignalSpec): with the flag set the loop never exits.  A
\* loop thread ends only at its while, with the running flag of its worker
\* false; an error of the poll takes the loop to the sleep of one poll
\* interval, and that sleep to the while of a further iteration.
C10_NeverExits ==
    [][\A l \in Loops :
          /\ (lpc[l] \notin {"idle", "crash"} /\ lpc'[l] = "idle")
                => lpc[l] = "check" /\ ~running[lowner[l]]
          /\ (lpc[l] = "poll" /\ lpc'[l] # "poll" /\ faults' # faults)
                => lpc'[l] = "errsleep"
          /\ (lpc[l] = "errsleep" /\ lpc'[l] # "errsleep")
                => lpc'[l] = "check"]_vars

\* C10 as amended (SignalSpec): the loop survives an error, not a Ctrl-C.
\* A loop thread ends only at its while, with the running flag of its
\* worker false, or by a KeyboardInterrupt, which cancels it where it
\* stands, the flag being cleared or left as it was; an
\* error of the poll takes the loop to the sleep of one poll interval, and
\* that sleep, unless interrupted, to the while of a further iteration.
C10_LoopSurvives ==
    [][\A l \in Loops :
          /\ (lpc[l] \notin {"idle", "crash"} /\ lpc'[l] = "idle")
                => \/ lpc[l] = "check" /\ ~running[lowner[l]]
                   \/ \E cleared \in BOOLEAN : Interrupt(l, cleared)
          /\ (lpc[l] = "poll" /\ lpc'[l] # "poll" /\ faults' # faults)
                => lpc'[l] = "errsleep"
          /\ (lpc[l] = "errsleep" /\ lpc'[l] # "errsleep")
                => lpc'[l] = "check" \/ \E cleared \in BOOLEAN : Interrupt(l, cleared)]_vars

\* C10's case: a poll of a running worker has raised and its loop sleeps.
C10_Witness ==
    \E l \in Loops : lpc[l] = "errsleep" /\ running[lowner[l]] /\ faults > 0

\* C11 (StopSpec): stop() ends the polling and nothing else.  A call of
\* stop() leaves the batches, their units and the store as they are; a loop
\* whose while reads the cleared flag returns without a poll, a poll being
\* made only after a while that read the flag set; and a unit in flight
\* under a cleared flag still goes on to its end, where its commit leaves
\* its task COMPLETED or FAILED.
C11_StopKeepsInFlight ==
    /\ [][/\ \A w \in Workers :
               (running[w] /\ ~running'[w])
               => /\ unit' = unit /\ batch' = batch /\ uw' = uw
                  /\ store' = store /\ lpc' = lpc
           /\ \A l \in Loops :
               /\ (lpc[l] = "check" /\ lpc'[l] # "check" /\ ~running[lowner[l]])
                     => lpc'[l] = "idle" /\ batch'[l] = << >>
               /\ (lpc[l] # "poll" /\ lpc'[l] = "poll")
                     => lpc[l] = "check" /\ running[lowner[l]]
               /\ batch'[l] # batch[l] => lpc[l] \in {"poll", "gather"}
               /\ \A i \in 1..Len(unit[l]) :
                     ( /\ ~running[lowner[l]] /\ Len(unit'[l]) = Len(unit[l])
                       /\ unit[l][i] = "finish" /\ unit'[l][i] # "finish"
                       /\ batch[l][i] \in DOMAIN store )
                     => /\ unit'[l][i] = "finished"
                        /\ store'[batch[l][i]].status \in {COMPLETED, FAILED}]_vars
    /\ \A l \in Loops, i \in 1..Concurrency :
          (lpc[l] = "gather" /\ i <= Len(unit[l]) /\ unit[l][i] \notin Final
              /\ ~running[lowner[l]])
          ~> (lpc[l] = "gather" /\ i <= Len(unit[l]) /\ unit[l][i] \in Final)

\* C11's case: the flag of a worker is cleared while its batch of two is in
\* its gather, one unit ended with its task COMPLETED, the other at work.
C11_Witness ==
    \E l \in Loops :
        /\ ~running[lowner[l]]
        /\ lpc[l] = "gather"
        /\ Len(batch[l]) = 2
        /\ \E i \in 1..2, j \in 1..2 :
              /\ unit[l][i] = "ok" /\ unit[l][j] = "work"
              /\ batch[l][i] \in DOMAIN store
              /\ store[batch[l][i]].status = COMPLETED

\* C12 (StopSpec): a stopped loop returns.  A loop thread whose worker's
\* flag is cleared returns, unless the flag is set again first; with the
\* flag cleared it goes from its while nowhere but out; and a loop returns
\* only from its while, leaving the flag cleared.
C12_StoppedLoopExits ==
    /\ \A l \in Loops :
          (lpc[l] # "idle" /\ ~running[lowner[l]])
          ~> (lpc[l] = "idle" \/ running[lowner[l]])
    /\ [][\A l \in Loops :
             /\ (lpc[l] = "check" /\ ~running[lowner[l]])
                   => lpc'[l] \in {"check", "idle"}
             /\ (lpc[l] # "idle" /\ lpc'[l] = "idle")
                   => lpc[l] = "check" /\ ~running'[lowner[l]]]_vars

\* C12's case: every loop has returned and the worker is not running, after
\* it completed one task and left another PENDING.
C12_Witness ==
    /\ \A l \in Loops : lpc[l] = "idle"
    /\ \A w \in Workers : ~running[w]
    /\ \E t \in DOMAIN store, u \in DOMAIN store :
          /\ store[t].result = WorkerResult(t)
          /\ store[u].status = PENDING

\* C13 (WorkerSpec): one poll loop per worker.  At every moment at most one
\* loop thread that has not returned runs the worker_loop of a given
\* TaskWorker.
C13_OneLoopPerWorker ==
    \A w \in Workers :
        Cardinality({l \in Loops : lpc[l] # "idle" /\ lowner[l] = w}) <= 1

\* C14 (WorkerSpec): the concurrency limit per worker.  The units that the
\* loops of one TaskWorker have under way at the same moment, started and
\* not ended, are never more than its concurrency.
C14_AtMostLimit ==
    \A w \in Workers :
        Cardinality({p \in Loops \X (1..Concurrency) :
                        /\ lowner[p[1]] = w
                        /\ lpc[p[1]] = "gather"
                        /\ p[2] <= Len(unit[p[1]])
                        /\ unit[p[1]][p[2]] \notin Final \cup {"start"}}) <= Concurrency

Min(a, b) == IF a < b THEN a ELSE b
CeilDiv(a, b) == (a + b - 1) \div b

\* C15 (DrainSpec): draining.  Every poll picks exactly min(concurrency,
\* number of PENDING tasks) tasks, all of them PENDING; and whenever the loop
\* stands between two iterations, after k polls of a queue of N tasks,
\* max(0, N - k * concurrency) tasks are PENDING, so none is once k has
\* reached ceil(N / concurrency).
C15_Drains ==
    /\ [][\A l \in Loops :
             (lpc[l] = "poll" /\ lpc'[l] # "poll")
             => /\ Len(batch'[l]) = Min(Concurrency, count_by_status(store, PENDING))
                /\ \A i \in 1..Len(batch'[l]) : store[batch'[l][i]].status = PENDING]_vars
    /\ [](\A l \in Loops :
             lpc[l] \in {"check", "poll", "sleep"}
             => LET N == Cardinality(DOMAIN store)
                    left == N - polls * Concurrency
                IN /\ count_by_status(store, PENDING) = IF left > 0 THEN left ELSE 0
                   /\ polls >= CeilDiv(N, Concurrency)
                         => count_by_status(store, PENDING) = 0)

\* C15's case: a queue of 2 * MaxTasks tasks, more than one batch, drained
\* with no failure in exactly ceil(2 * MaxTasks / concurrency) polls.
C15_Witness ==
    /\ Cardinality(DOMAIN store) = 2 * MaxTasks
    /\ 2 * MaxTasks > Concurrency
    /\ lpc["l1"] = "check"
    /\ polls = CeilDiv(2 * MaxTasks, Concurrency)
    /\ \A t \in DOMAIN store : store[t].status = COMPLETED

\* C16 (SvcSpec): the outcome of a completion.  On every store reached,
\* complete_task(id, r) with a non-empty r on a stored task, run with no
\* other call in between, leaves it COMPLETED with result r, completed_at
\* set and no error_message.
C16_CompleteOutcome ==
    \A id \in DOMAIN store, r \in Results :
        Truthy(r)
        => LET after == complete_task(store, id, r)[id]
           IN /\ after.status = COMPLETED
              /\ after.result = r
              /\ after.completed_at # Null
              /\ after.error_message = Null

\* C17 (SvcSpec): the outcome of a failure.  On every store reached,
\* fail_task(id, m) on a stored task, run with no other call in between,
\* leaves it FAILED with error_message m, no result and no completed_at.
C17_FailOutcome ==
    \A id \in DOMAIN store, m \in Messages :
        LET after == fail_task(store, id, m)[id]
        IN /\ after.status = FAILED
           /\ after.error_message = m
           /\ after.result = Null
           /\ after.completed_at = Null

\* C18 (SvcSpec): the statistics count the store.  Whatever calls have been
\* made, get_stats gives under each of its five keys the number of stored
\* tasks in the status of that name, and the five numbers add up to the
\* number of stored tasks.
C18_StatsCount ==
    LET stats == get_stats(store)
        In(status) == {i \in DOMAIN store : store[i].status = status}
    IN /\ DOMAIN stats = {"pending", "in_progress", "completed", "failed", "cancelled"}
       /\ stats.pending = Cardinality(In(PENDING))
       /\ stats.in_progress = Cardinality(In(IN_PROGRESS))
       /\ stats.completed = Cardinality(In(COMPLETED))
       /\ stats.failed = Cardinality(In(FAILED))
       /\ stats.cancelled = Cardinality(In(CANCELLED))
       /\ stats.pending + stats.in_progress + stats.completed
             + stats.failed + stats.cancelled = Cardinality(DOMAIN store)

\* C18's case: two stored tasks, one CANCELLED and one COMPLETED, counted 1
\* and 1 with 0 under the other keys.
C18_Witness ==
    /\ Cardinality(DOMAIN store) = 2
    /\ \E t \in DOMAIN store : store[t].status = CANCELLED
    /\ get_stats(store) = [pending |-> 0, in_progress |-> 0, completed |-> 1,
                           failed |-> 0, cancelled |-> 1]

\* C19 (SvcSpec): deleting.  In every store reached, delete_task of an id
\* that is not stored returns False and leaves the store as it is;
\* delete_task of a stored id returns True and removes that row and no
\* other, every other row staying as it was, after which get_task of the
\* id finds nothing and a second delete_task of it returns False.  As
\* steps: a delete_task call on an id that is not stored ends at once with
\* nothing changed, and the commit of a delete_task call takes the row of
\* its id, if still there, and no other.
C19_Delete ==
    /\ [](\A id \in Ids \cup {UnknownId} :
             LET after == repo_delete(store, id) IN
             IF id \notin DOMAIN store
             THEN ~delete_task_ret(store, id) /\ after = store
             ELSE /\ delete_task_ret(store, id)
                  /\ DOMAIN after = DOMAIN store \ {id}
                  /\ \A t \in DOMAIN after : after[t] = store[t]
                  /\ found(after, id) = "none"
                  /\ ~delete_task_ret(after, id)
                  /\ repo_delete(after, id) = after)
    /\ [][\A c \in Callers :
             /\ \A id \in (Ids \cup {UnknownId}) \ DOMAIN store :
                   DeleteTask(c, id) => call' = call /\ store' = store
             /\ DeleteCommit(c)
                   => /\ DOMAIN store' = DOMAIN store \ {call[c].id}
                      /\ \A t \in DOMAIN store' : store'[t] = store[t]
                      /\ call'[c].op = "idle"]_vars

\* C19's case: of two stored tasks the first has been deleted and the second
\* is still there; a further delete of the first finds nothing.
C19_Witness ==
    /\ DOMAIN store = {2}
    /\ \A c \in Callers : call[c].op = "idle"
    /\ found(store, 1) = "none"
    /\ ~delete_task_ret(store, 1)
    /\ delete_task_ret(store, 2)

\* C20 (QuerySpec): the pending query.  For every store reached and every
\* limit, every list that get_pending_tasks(limit) may return holds PENDING
\* tasks only, each once, min(limit, number of PENDING tasks) of them, none
\* before one created later and none left out that was created later than
\* one returned; and the lists it may return are the same whatever the
\* priorities of the stored tasks are.
C20_PendingQuery ==
    \A limit \in 0..(MaxTasks + 1) :
        LET P == {t \in DOMAIN store : store[t].status = PENDING} IN
        /\ get_pending_tasks(store, limit) # {}
        /\ \A res \in get_pending_tasks(store, limit) :
              /\ \A i \in 1..Len(res) : res[i] \in P
              /\ Len(res) = Min(limit, Cardinality(P))
              /\ \A i \in 1..Len(res), j \in 1..Len(res) :
                    i < j => /\ res[i] # res[j]
                             /\ store[res[i]].created_at >= store[res[j]].created_at
              /\ \A t \in P \ Range(res), i \in 1..Len(res) :
                    store[t].created_at <= store[res[i]].created_at
        /\ \A p \in TaskPriority :
              get_pending_tasks([t \in DOMAIN store |->
                                    [store[t] EXCEPT !.priority = p]], limit)
                 = get_pending_tasks(store, limit)

\* C20's case: two PENDING tasks, the one created earlier urgent and the one
\* created later low; with limit 1 the later one is returned, with limit 2
\* both, the later one first.
C20_Witness ==
    /\ DOMAIN store = {1, 2}
    /\ store[1].status = PENDING /\ store[1].priority = "urgent"
    /\ store[2].status = PENDING /\ store[2].priority = "low"
    /\ store[1].created_at < store[2].created_at
    /\ get_pending_tasks(store, 1) = {<<2>>}
    /\ get_pending_tasks(store, 2) = {<<2, 1>>}

\* C21 (QuerySpec): the listing.  For every store reached, every skip and
\* limit and every status and priority filter, given or not, every list
\* that list_tasks may return holds stored tasks that pass the filters, each
\* once, none before one created later; the i-th of them has at most
\* skip + i - 1 matching tasks created later than it and at least that many
\* others created no earlier; and there are min(limit, matching - skip) of
\* them, none when skip is not below the number of matching tasks.
C21_ListPage ==
    \A skip \in 0..(MaxTasks + 1), limit \in 0..(MaxTasks + 1),
       status \in TaskStatus \cup {Null}, priority \in TaskPriority \cup {Null} :
        LET M == {t \in DOMAIN store :
                     /\ status # Null => store[t].status = status
                     /\ priority # Null => store[t].priority = priority}
            rest == IF Cardinality(M) > skip THEN Cardinality(M) - skip ELSE 0
        IN /\ list_tasks(store, skip, limit, status, priority) # {}
           /\ \A res \in list_tasks(store, skip, limit, status, priority) :
                 /\ \A i \in 1..Len(res) : res[i] \in M
                 /\ \A i \in 1..Len(res), j \in 1..Len(res) :
                       i < j => /\ res[i] # res[j]
                                /\ store[res[i]].created_at >= store[res[j]].created_at
                 /\ \A i \in 1..Len(res) :
                       /\ Cardinality({t \in M : store[t].created_at
                                                  > store[res[i]].created_at})
                             <= skip + i - 1
                       /\ Cardinality({t \in M \ {res[i]} :
                                          store[t].created_at >= store[res[i]].created_at})
                             >= skip + i - 1
                 /\ Len(res) = Min(limit, rest)

\* C21's case: two stored tasks, the second created later and alone low;
\* the second page of size one holds the first task, and the listing of the
\* low tasks holds the second alone.
C21_Witness ==
    /\ DOMAIN store = {1, 2}
    /\ store[1].priority # "low" /\ store[2].priority = "low"
    /\ store[1].created_at < store[2].created_at
    /\ list_tasks(store, 1, 1, Null, Null) = {<<1>>}
    /\ list_tasks(store, 0, 2, Null, "low") = {<<2>>}
    /\ list_tasks(store, 2, 1, Null, Null) = {<< >>}

\* C22 (Spec): calls on an id that is not stored.  In every store reached,
\* for every id with no row (never created or deleted), get_task,
\* update_task, process_task, complete_task and fail_task return None and
\* leave the store as it is, the id still without a row; an update_task
\* call on such an id ends at once with nothing changed; and a step of a
\* worker unit whose task has no row at that moment, deleted while the unit
\* was at work on it, changes no row, brings none back and starts no write.
C22_NotStored ==
    /\ [](\A id \in (Ids \cup {UnknownId}) \ DOMAIN store :
             /\ found(store, id) = "none"
             /\ process_task_ret(store, id) = "none"
             /\ process_task(store, id) = store
             /\ \A s \in TaskStatus \cup {Null}, p \in TaskPriority \cup {Null} :
                   /\ update_task_ret(store, id) = "none"
                   /\ update_task(store, id, "b", "d", p, s) = store
             /\ \A r \in Results :
                   /\ complete_task_ret(store, id) = "none"
                   /\ complete_task(store, id, r) = store
             /\ \A m \in Messages :
                   /\ fail_task_ret(store, id) = "none"
                   /\ fail_task(store, id, m) = store)
    /\ [][/\ \A id \in Ids \ DOMAIN store :
                UpdateTask("a", id, Null, Null, Null, CANCELLED)
                => call' = call /\ store' = store
          /\ \A l \in Loops : \A i \in 1..Len(unit[l]) :
                ( /\ Len(unit'[l]) = Len(unit[l])
                  /\ unit'[l][i] # unit[l][i]
                  /\ batch[l][i] \notin DOMAIN store )
                => /\ store' = store
                   /\ unit'[l][i] \notin Writing]_vars

\* C22's case: a unit has ended its work on a task that was deleted while
\* the unit was running, and the task has no row.
C22_Witness ==
    \E l \in Loops, i \in 1..Concurrency :
        /\ lpc[l] = "gather"
        /\ i <= Len(unit[l])
        /\ unit[l][i] = "ok"
        /\ faults = 0
        /\ batch[l][i] \notin DOMAIN store
        /\ complete_task_ret(store, batch[l][i]) = "none"

\* C23 (QuerySpec): creating.  In every store reached, create_task of any
\* title, description and priority adds exactly one row, under an id that
\* no stored task has; the row is PENDING with the title, description and
\* priority given and with result, error_message and completed_at null; and
\* every row stored before is as it was.
C23_Create ==
    \A title \in {"a", "b"}, description \in {Null, "d"}, priority \in TaskPriority :
        LET after == create_task(store, title, description, priority)
            new == DOMAIN after \ DOMAIN store
        IN /\ Cardinality(new) = 1
           /\ DOMAIN store \subseteq DOMAIN after
           /\ \A t \in DOMAIN store : after[t] = store[t]
           /\ \A id \in new :
                 /\ after[id].status = PENDING
                 /\ after[id].title = title
                 /\ after[id].description = description
                 /\ after[id].priority = priority
                 /\ after[id].result = Null
                 /\ after[id].error_message = Null
                 /\ after[id].completed_at = Null

\* C23's case: an urgent task has been created next to a task that was
\* COMPLETED before; the new one is PENDING with nothing recorded, the old
\* one still COMPLETED.
C23_Witness ==
    /\ DOMAIN store = {1, 2}
    /\ store[1].status = COMPLETED /\ store[1].completed_at # Null
    /\ store[2] = [Task("a", Null, "urgent") EXCEPT !.created_at = clock]

\* C24 (SvcSpec): the frame of an update.  In every store reached, for
\* every stored task, whatever its status, and every choice of title,
\* description, priority and status, each given or not, update_task, run
\* with no other call in between, gives
\* the task the fields that are given and keeps those that are not; a
\* status that is given becomes the status, with completed_at set when it is
\* COMPLETED and null otherwise, and completed_at is kept when no status is
\* given; result and error_message are kept; no other row changes.
C24_UpdateFrame ==
    \A id \in DOMAIN store :
    \A title \in {Null, "b"}, description \in {Null, "d"},
       priority \in {Null, "high"}, s \in TaskStatus \cup {Null} :
        LET after == update_task(store, id, title, description, priority, s)
            old == store[id]
            new == after[id]
        IN /\ DOMAIN after = DOMAIN store
           /\ \A t \in DOMAIN store \ {id} : after[t] = store[t]
           /\ new.title = IF title # Null THEN title ELSE old.title
           /\ new.description = IF description # Null THEN description ELSE old.description
           /\ new.priority = IF priority # Null THEN priority ELSE old.priority
           /\ new.status = IF s # Null THEN s ELSE old.status
           /\ s = COMPLETED => new.completed_at # Null
           /\ (s # Null /\ s # COMPLETED) => new.completed_at = Null
           /\ s = Null => new.completed_at = old.completed_at
           /\ new.result = old.result
           /\ new.error_message = old.error_message

\* C24's case: a task that was completed with a result has been set back
\* to PENDING by update_task: completed_at is null again, the result is
\* still there.
C24_Witness ==
    \E id \in DOMAIN store :
        /\ store[id].status = PENDING
        /\ store[id].result = "r"
        /\ store[id].completed_at = Null
        /\ update_task(store, id, "b", Null, "high", Null)[id].result = "r"

\* C25 (ClockSpec): id and created_at stay.  In every store reached,
\* update_task, process_task, complete_task and fail_task on a stored task
\* give back a store with the same ids in which every task has the
\* created_at it had; and every step, of a call's commit or of a worker
\* unit, keeps every stored task under its id with its created_at.
C25_IdCreatedAtKept ==
    /\ [](\A id \in DOMAIN store :
             LET Same(after) ==
                     /\ DOMAIN after = DOMAIN store
                     /\ \A t \in DOMAIN store : after[t].created_at = store[t].created_at
             IN /\ \A s \in TaskStatus \cup {Null}, p \in TaskPriority \cup {Null} :
                      Same(update_task(store, id, "b", "d", p, s))
                /\ Same(process_task(store, id))
                /\ \A r \in Results : Same(complete_task(store, id, r))
                /\ \A m \in Messages : Same(fail_task(store, id, m)))
    /\ [][\A t \in DOMAIN store :
             /\ t \in DOMAIN store'
             /\ store'[t].created_at = store[t].created_at]_vars

\* C25's case: a task created at time 0 that a user has retitled and a
\* worker unit has completed at a later time, next to a task created later.
C25_Witness ==
    /\ clock > 0
    /\ DOMAIN store = {1, 2}
    /\ store[1].created_at = 0 /\ store[1].result = WorkerResult(1)
    /\ store[1].title = "b"
    /\ store[2].created_at > 0

\* C26 (LiveSpec): no task is left IN_PROGRESS.  With store writes that
\* succeed and no user deleting or updating tasks, a task that is
\* IN_PROGRESS is COMPLETED or FAILED at some later moment.
C26_InProgressEnds ==
    \A t \in Ids :
        (t \in DOMAIN store /\ store[t].status = IN_PROGRESS)
        ~> (t \in DOMAIN store /\ store[t].status \in {COMPLETED, FAILED})

\* The coroutines at work on task t, or about to write to it.
Live(t) ==
    {p \in Loops \X (1..Concurrency) :
        /\ p[2] <= Len(unit[p[1]])
        /\ batch[p[1]][p[2]] = t
        /\ unit[p[1]][p[2]] \notin Final \cup {"broken"}}

\* C27 (FaultSpec): a failed write of the outcome.  When the commit that
\* records the outcome of a unit fails, nothing is written and the unit is
\* in its except block, the other units where they stand and the loop in
\* its gather; from there the unit writes nothing and ends, its fail_task
\* raising too; a unit that has ended stays ended; a task that is
\* IN_PROGRESS with no unit at work on it is never changed again, no poll
\* handing out a task that is not PENDING; and the loop goes on to its next
\* poll, or returns when the worker was stopped.
C27_WriteFailureKeeps ==
    /\ [][\A l \in Loops :
             /\ \A i \in 1..Len(unit[l]) :
                   Len(unit'[l]) = Len(unit[l]) =>
                   /\ (unit[l][i] = "finish" /\ unit'[l][i] \notin {"finish", "finished"})
                         => /\ unit'[l][i] = "broken"
                            /\ store' = store
                            /\ \A j \in 1..Len(unit[l]) : j # i => unit'[l][j] = unit[l][j]
                            /\ lpc'[l] = "gather"
                   /\ (unit[l][i] = "broken" /\ unit'[l][i] # "broken")
                         => unit'[l][i] = "lost" /\ store' = store
                   /\ unit[l][i] = "lost" => unit'[l][i] = "lost"
             /\ (lpc[l] = "poll" /\ lpc'[l] # "poll")
                   => \A j \in 1..Len(batch'[l]) : store[batch'[l][j]].status = PENDING]_vars
    /\ [][\A t \in DOMAIN store :
             (store[t].status = IN_PROGRESS /\ Live(t) = {})
             => t \in DOMAIN store' /\ store'[t] = store[t]]_vars
    /\ \A l \in Loops, i \in 1..Concurrency :
          (lpc[l] = "gather" /\ i <= Len(unit[l]) /\ unit[l][i] = "broken")
          ~> (lpc[l] \in {"poll", "idle"})

\* C27's case: in a batch of two the commit of the outcome of one unit has
\* failed, the unit is in its except block and its task is still
\* IN_PROGRESS, while the other unit has ended with its task COMPLETED.
C27_Witness ==
    \E l \in Loops :
        /\ lpc[l] = "gather"
        /\ Len(batch[l]) = 2
        /\ faults = 1
        /\ \E i \in 1..2, j \in 1..2 :
              /\ unit[l][i] = "broken"
              /\ batch[l][i] \in DOMAIN store
              /\ store[batch[l][i]].status = IN_PROGRESS
              /\ unit[l][j] = "ok"
              /\ batch[l][j] \in DOMAIN store
              /\ store[batch[l][j]].status = COMPLETED
              /\ store[batch[l][j]].result = WorkerResult(batch[l][j])

\* C28 (StarveSpec): no starvation.  With the worker running and its event
\* loop fair, a task that is PENDING is at some later moment no longer
\* PENDING, whatever tasks are created meanwhile.
C28_NoStarvation ==
    \A t \in 1..(Concurrency + 1) :
        (running["w1"] /\ t \in DOMAIN store /\ store[t].status = PENDING)
        ~> (t \notin DOMAIN store \/ store[t].status # PENDING)

=============================================================================
